---- MODULE Spec2Model ----
(***************************************************************************)
(* A model of the fact-check Discord bot: src/bot.py (event handler, the   *)
(* prevent_duplicate decorator, the factcheck command and its cache) and   *)
(* src/agent.py (FactCheckAgent.fact_check, the single-worker executor,    *)
(* create_fact_check_embed and split_into_chunks).                         *)
(*                                                                         *)
(* Python strings are TLA+ strings; every string operation of the source   *)
(* (in, split, strip, lower, slicing) is defined below by what it does.    *)
(***************************************************************************)
EXTENDS Integers, Sequences, FiniteSets, TLC

(***************************************************************************)
(* Python string primitives                                                *)
(***************************************************************************)

\* s[i] (1-based) as a one-character string
CharAt(s, i) == SubSeq(s, i, i)

\* str.isspace for one character
IsSpace(c) == c \in {" ", "\n", "\t"}

Min(S) == CHOOSE m \in S : \A o \in S : m <= o

Max(S) == CHOOSE m \in S : \A o \in S : m >= o

\* the positions at which sub occurs in s
Occurrences(s, sub) ==
    {i \in 1..(Len(s) - Len(sub) + 1) : SubSeq(s, i, i + Len(sub) - 1) = sub}

\* Python's  sub in s
Contains(s, sub) == Occurrences(s, sub) # {}

\* str.startswith(prefix)
StartsWith(s, prefix) ==
    Len(s) >= Len(prefix) /\ SubSeq(s, 1, Len(prefix)) = prefix

\* str.strip()
Strip(s) ==
    LET keep == {i \in 1..Len(s) : ~IsSpace(CharAt(s, i))}
    IN  IF keep = {} THEN "" ELSE SubSeq(s, Min(keep), Max(keep))

\* the elements of a set of numbers in increasing order
Ascending(S) ==
    [k \in 1..Cardinality(S) |-> CHOOSE e \in S : Cardinality({o \in S : o < e}) = k - 1]

\* str.split(sep) for a separator no two occurrences of which overlap (the
\* program splits on ". ", "\n" and "Rating:"): every occurrence separates
\* two pieces; empty pieces are kept
SplitOn(s, sep) ==
    LET cuts == Ascending(Occurrences(s, sep))
        n == Len(cuts)
    IN  [k \in 1..(n + 1) |->
            SubSeq(s, IF k = 1 THEN 1 ELSE cuts[k - 1] + Len(sep),
                      IF k = n + 1 THEN Len(s) ELSE cuts[k] - 1)]

\* str.split(): the maximal runs of non-whitespace characters
SplitWords(s) ==
    LET inword(i) == i >= 1 /\ i <= Len(s) /\ ~IsSpace(CharAt(s, i))
        starts == Ascending({i \in 1..Len(s) : inword(i) /\ ~inword(i - 1)})
        stops == Ascending({i \in 1..Len(s) : inword(i) /\ ~inword(i + 1)})
    IN  [k \in 1..Len(starts) |-> SubSeq(s, starts[k], stops[k])]

UpperCase == "ABCDEFGHIJKLMNOPQRSTUVWXYZ"

LowerCase == "abcdefghijklmnopqrstuvwxyz"

Digits == "0123456789"

LowerChar(c) ==
    LET at == Occurrences(UpperCase, c)
    IN  IF at = {} THEN c ELSE CharAt(LowerCase, Min(at))

\* str.lower(), halving the string so that the evaluation stays shallow
RECURSIVE Lower(_)
Lower(s) ==
    IF Len(s) = 0 THEN ""
    ELSE IF Len(s) = 1 THEN LowerChar(s)
    ELSE LET h == Len(s) \div 2
         IN  Lower(SubSeq(s, 1, h)) \o Lower(SubSeq(s, h + 1, Len(s)))

\* sep.join(parts)
RECURSIVE Join(_, _)
Join(parts, sep) ==
    IF Len(parts) = 0 THEN ""
    ELSE IF Len(parts) = 1 THEN parts[1]
    ELSE LET h == Len(parts) \div 2
         IN  Join(SubSeq(parts, 1, h), sep) \o sep
                 \o Join(SubSeq(parts, h + 1, Len(parts)), sep)

\* s * k
RECURSIVE Repeat(_, _)
Repeat(s, k) ==
    IF k <= 0 THEN ""
    ELSE IF k = 1 THEN s
    ELSE Repeat(s, k \div 2) \o Repeat(s, k - (k \div 2))

(***************************************************************************)
(* src/agent.py: the module-level text helpers                             *)
(***************************************************************************)

\* truncate_text(text, max_length)
truncate_text(text, max_length) ==
    IF Len(text) <= max_length THEN text
    ELSE SubSeq(text, 1, max_length - 3) \o "..."

\* one pass of the inner  for word in words  loop; st is
\* <<chunks, current_chunk>>
WordStep(word, st, chunk_size) ==
    LET chunks == st[1]
        current_chunk == st[2]
    IN  IF Len(current_chunk) + Len(word) + 1 <= chunk_size
        THEN <<chunks, IF current_chunk # "" THEN current_chunk \o " " \o word
                       ELSE word>>
        ELSE <<Append(chunks, current_chunk), word>>

\* the passes for words[lo..hi] in order, halving the range so that the
\* evaluation stays shallow (the test on  first  has the first half
\* evaluated before the second half starts)
RECURSIVE WordLoop(_, _, _, _, _)
WordLoop(words, lo, hi, st, chunk_size) ==
    IF lo > hi THEN st
    ELSE IF lo = hi THEN WordStep(words[lo], st, chunk_size)
    ELSE LET mid == (lo + hi) \div 2
             first == WordLoop(words, lo, mid, st, chunk_size)
         IN  IF Len(first) = 2 THEN WordLoop(words, mid + 1, hi, first, chunk_size)
             ELSE first

\* one pass of the  for sentence in sentences  loop; st is
\* <<chunks, current_chunk>>
SentenceStep(sentence, st, chunk_size) ==
    LET chunks == st[1]
        current_chunk == st[2]
    IN  IF Len(current_chunk) + Len(sentence) + 2 <= chunk_size
        THEN <<chunks, IF current_chunk # ""
                       THEN current_chunk \o ". " \o sentence
                       ELSE sentence>>
        ELSE IF current_chunk # ""
        THEN <<Append(chunks, current_chunk \o "."), sentence>>
        ELSE IF Len(sentence) > chunk_size
        THEN LET words == SplitWords(sentence)
                 w == WordLoop(words, 1, Len(words), <<chunks, "">>, chunk_size)
             IN  IF w[2] # "" THEN <<Append(w[1], w[2]), "">> ELSE w
        ELSE <<chunks, sentence>>

\* the passes for sentences[lo..hi] in order
RECURSIVE SentenceLoop(_, _, _, _, _)
SentenceLoop(sentences, lo, hi, st, chunk_size) ==
    IF lo > hi THEN st
    ELSE IF lo = hi THEN SentenceStep(sentences[lo], st, chunk_size)
    ELSE LET mid == (lo + hi) \div 2
             first == SentenceLoop(sentences, lo, mid, st, chunk_size)
         IN  IF Len(first) = 2
             THEN SentenceLoop(sentences, mid + 1, hi, first, chunk_size)
             ELSE first

\* split_into_chunks(text, chunk_size)
split_into_chunks(text, chunk_size) ==
    IF Len(text) <= chunk_size THEN <<text>>
    ELSE LET sentences == SplitOn(text, ". ")
             st == SentenceLoop(sentences, 1, Len(sentences), << << >>, "" >>,
                                chunk_size)
         IN  IF st[2] # "" THEN Append(st[1], st[2]) ELSE st[1]

(***************************************************************************)
(* src/agent.py: FactCheckAgent.create_fact_check_embed                    *)
(***************************************************************************)

\* the chunk size create_fact_check_embed passes to split_into_chunks
EMBED_CHUNK_SIZE == 1000

\* the length of a field value the code comment at the call names as the limit
FIELD_VALUE_LIMIT == 1024

\* the length the description's claim text is truncated to
DESCRIPTION_CLAIM_LIMIT == 4000

RatingLabels == {"True", "Partially True", "False", "Unverifiable"}

\* raw_result.split("Rating:")[1].split("\n")[0], when "Rating:" in raw_result
rating_line(raw_result) == SplitOn(SplitOn(raw_result, "Rating:")[2], "\n")[1]

\* the if/elif chain that decides  rating
rating_of(raw_result) ==
    IF Contains(raw_result, "Rating:")
    THEN LET line == rating_line(raw_result)
         IN  IF Contains(line, "False") THEN "False"
             ELSE IF Contains(line, "True") /\ ~Contains(line, "Partially True")
             THEN "True"
             ELSE IF Contains(line, "Partially True") THEN "Partially True"
             ELSE "Unverifiable"
    ELSE IF Contains(raw_result, "False") THEN "False"
    ELSE IF Contains(raw_result, "True") /\ ~Contains(raw_result, "Partially True")
    THEN "True"
    ELSE IF Contains(raw_result, "Partially True") THEN "Partially True"
    ELSE "Unverifiable"

\* the colour assigned in the same branches
color_of(rating) ==
    CASE rating = "False" -> "red"
      [] rating = "True" -> "green"
      [] rating = "Partially True" -> "gold"
      [] OTHER -> "light_gray"

\* the emoji put before the rating (written here by its Discord short name)
emoji_of(rating) ==
    CASE rating = "False" -> ":x:"
      [] rating = "True" -> ":white_check_mark:"
      [] rating = "Partially True" -> ":warning:"
      [] OTHER -> ":question:"

\* the keys of the  sections  dict, in insertion order
SectionNames ==
    << "Core factual assertions", "Evaluation of each assertion",
       "Research related information", "Explanation with evidence", "Sources" >>

EmptySections == [k \in 1..Len(SectionNames) |-> ""]

\* no section header seen yet (current_section = None)
NoSection == 0

\* section_name.lower() for every key
LoweredSectionNames == [k \in 1..Len(SectionNames) |-> Lower(SectionNames[k])]

\* section_name.lower() in line.lower(), given line.lower()
NamesSection(lowered, k) == Contains(lowered, LoweredSectionNames[k])

\* one pass of  for line in raw_result.split('\n') ; st is
\* <<sections, current_section>>
SectionStep(rawline, st) ==
    LET line == Strip(rawline)
        lowered == Lower(line)
        named == {k \in 1..Len(SectionNames) : NamesSection(lowered, k)}
        hits == IF Contains(line, ":") THEN named ELSE {}
        current_section == IF hits # {} THEN Min(hits) ELSE st[2]
    IN  IF line = "" THEN st
        ELSE IF current_section # NoSection /\ named = {}
        THEN <<[st[1] EXCEPT ![current_section] = @ \o line \o "\n"],
               current_section>>
        ELSE <<st[1], current_section>>

\* the passes for lines[lo..hi] in order
RECURSIVE SectionLoop(_, _, _, _)
SectionLoop(lines, lo, hi, st) ==
    IF lo > hi THEN st
    ELSE IF lo = hi THEN SectionStep(lines[lo], st)
    ELSE LET mid == (lo + hi) \div 2
             first == SectionLoop(lines, lo, mid, st)
         IN  IF Len(first) = 2 THEN SectionLoop(lines, mid + 1, hi, first)
             ELSE first

\* the  sections  dict after the parsing loop
parse_sections(raw_result) ==
    LET lines == SplitOn(raw_result, "\n")
    IN  SectionLoop(lines, 1, Len(lines), <<EmptySections, NoSection>>)[1]

\* the fields added for one section: one per chunk
SectionFields(k, content) ==
    IF Strip(content) = "" THEN << >>
    ELSE LET chunks == split_into_chunks(Strip(content), EMBED_CHUNK_SIZE)
         IN  [i \in 1..Len(chunks) |->
                 [name |-> IF i = 1 THEN SectionNames[k]
                           ELSE SectionNames[k] \o " (continued)",
                  value |-> chunks[i]]]

RECURSIVE AllSectionFields(_, _)
AllSectionFields(sections, k) ==
    IF k > Len(SectionNames) THEN << >>
    ELSE SectionFields(k, sections[k]) \o AllSectionFields(sections, k + 1)

\* create_fact_check_embed(raw_result, claim)
create_fact_check_embed(raw_result, claim) ==
    LET rating == rating_of(raw_result)
        sections == parse_sections(raw_result)
    IN  [title |-> "Fact Check Result",
         description |-> "**Claim:** \""
                             \o truncate_text(claim, DESCRIPTION_CLAIM_LIMIT) \o "\"",
         color |-> color_of(rating),
         fields |-> <<[name |-> "Rating",
                       value |-> emoji_of(rating) \o " " \o rating]>>
                        \o AllSectionFields(sections, 1),
         footer |-> IF Contains(sections[Len(SectionNames)], "http")
                    THEN "Sources included - click the links above for more information"
                    ELSE ""]

\* embed.add_field(name=..., value=..., inline=False)
add_field(embed, name, value) ==
    [embed EXCEPT !.fields = Append(@, [name |-> name, value |-> value])]

\* the character classes kept by the pattern [^a-zA-Z0-9\s\'] of clean_for_search
KeptBySearch(c) ==
    \/ Contains(UpperCase, c)
    \/ Contains(LowerCase, c)
    \/ Contains(Digits, c)
    \/ IsSpace(c)
    \/ c = "'"

\* re.sub(r'[^a-zA-Z0-9\s\']', ' ', text)
RECURSIVE BlankSpecials(_)
BlankSpecials(s) ==
    IF Len(s) = 0 THEN ""
    ELSE IF Len(s) = 1 THEN (IF KeptBySearch(s) THEN s ELSE " ")
    ELSE LET h == Len(s) \div 2
         IN  BlankSpecials(SubSeq(s, 1, h)) \o BlankSpecials(SubSeq(s, h + 1, Len(s)))

\* FactCheckAgent.clean_for_search(text)
clean_for_search(text) == Join(SplitWords(BlankSpecials(text)), " ")

(***************************************************************************)
(* The bot's environment: the messages Discord may deliver, the clock,     *)
(* and what the remote services may answer                                 *)
(***************************************************************************)

\* how many on_message events are delivered in one run
MaxDeliveries == 2

\* the ids of the messages that may be delivered
MessageIds == 1..6

\* message.author.bot
AuthorIsBot(m) == m = 4

\* message.author.id / ctx.author.id
AuthorOf(m) == IF m = 2 THEN 72 ELSE 71

\* message.channel.id / ctx.channel.id
ChannelOf(m) == 31

\* message.content
ContentOf(m) ==
    IF m = 5 THEN "is that true?"
    ELSE IF m = 6 THEN "!status"
    ELSE "!factcheck"

\* the id of a message nobody replied to has no reference
NoReference == 0

\* message.reference.message_id, NoReference when message.reference is None
ReferenceOf(m) == IF m \in {1, 2} THEN 101 ELSE NoReference

\* the content of the message with this id in the channel
ClaimText(ref) ==
    IF ref \in MessageIds THEN ContentOf(ref)
    ELSE "The moon is 100% cheese, isn't it?"

\* the claims that can be fact-checked
Claims == {ClaimText(ReferenceOf(m)) : m \in {i \in MessageIds : ReferenceOf(i) # NoReference}}

\* bot.command_prefix
command_prefix == "!"

\* ctx.command.name: the word after the prefix
CommandNameOf(m) == SubSeq(ContentOf(m), Len(command_prefix) + 1, Len(ContentOf(m)))

\* the times time.time() is sampled at, around the expiry boundary
TimeSamples == {0, 599, 600}

\* what the summarise call of the LLM may answer
Summaries == {"Moon made of cheese"}

\* what the assess call of the LLM may answer
Responses == {"- Rating: False\n- Sources:\nOfficial records"}

\* container.text of the Snopes page, when the search finds one
SnopesTexts == {"False"}

\* the text search_relevant_info returns when the scrape fails
SEARCH_FALLBACK == "No relevant Snopes fact-checks found. Using model's built-in knowledge."

(***************************************************************************)
(* src/bot.py: module state                                                *)
(***************************************************************************)

MAX_PROCESSED_COMMANDS == 1000

CACHE_EXPIRY == 600

\* ThreadPoolExecutor(max_workers=1)
MAX_WORKERS == 1

\* ids of command messages handled before the modelled run starts
Backlog(n) == {1000 + i : i \in 1..n}

\* the sizes processed_commands may have when the modelled run starts: a
\* fresh process, and a process that has seen MAX_PROCESSED_COMMANDS
\* command messages
InitialBacklogs == {0, MAX_PROCESSED_COMMANDS}

VARIABLES
    now,                \* time.time()
    delivered,          \* number of on_message events so far
    processed_commands, \* bot.py: processed_commands
    active_commands,    \* bot.py: active_commands
    command_lock,       \* bot.py: command_lock; the holder, or NoTask
    factcheck_cache,    \* bot.py: factcheck_cache
    executor_queue,     \* agent.py: executor's work queue
    executor_running,   \* agent.py: work items a worker thread is executing
    task,               \* one command invocation per delivery
    dispatched,         \* how often process_commands was invoked per message
    text_in,            \* input of a text function under evaluation
    text_out,           \* its result
    lock_file,          \* bot.py: the file named by _instance_lock_file
    proc,               \* the operating-system processes started from bot.py
    cleaned             \* what the last run of clean_expired_cache did

bot_vars ==
    << now, delivered, processed_commands, active_commands, command_lock,
       factcheck_cache, executor_queue, executor_running, task, dispatched >>

text_vars == << text_in, text_out >>

proc_vars == << lock_file, proc >>

vars == << bot_vars, text_vars, proc_vars, cleaned >>

Tasks == 1..MaxDeliveries

NoTask == 0

NoEmbed == [title |-> "", description |-> "", color |-> "", fields |-> << >>,
            footer |-> ""]

\* a delivery that has not (or not yet) led to a command invocation
IdleTask ==
    [pc |-> "none", msg |-> 0, current_time |-> 0, response_msg |-> FALSE,
     claim |-> "", query |-> "", future |-> "none", snopes_results |-> "", embed |-> NoEmbed,
     raised |-> "none", propagated |-> "none", calls |-> << >>, sent |-> << >>,
     rejected |-> FALSE, served |-> << >>, expired |-> << >>, failed |-> {},
     listed |-> {}, stored |-> << >>]

NoText == [fn |-> "none"]

(***************************************************************************)
(* src/bot.py: on_message                                                  *)
(***************************************************************************)

\* message.content.startswith(bot.command_prefix)
IsCommandMessage(m) == StartsWith(ContentOf(m), command_prefix)

\* the size limit left out
remember_command_unbounded(seen, m) == seen \cup {m}

\* processed_commands after  add(message.id)  and the size limit that follows
remember_command(seen, m) ==
    IF Cardinality(seen \cup {m}) > MAX_PROCESSED_COMMANDS THEN {}
    ELSE seen \cup {m}

\* the condition under which on_message hands the message to process_commands
should_process(m, seen) ==
    ~AuthorIsBot(m) /\ IsCommandMessage(m) /\ m \notin seen

\* the invocation process_commands starts for message m
NewTask(m) == [IdleTask EXCEPT !.pc = "w_lock", !.msg = m]

\* on_message(message): the event handler up to  await bot.process_commands
on_message(m) ==
    /\ delivered < MaxDeliveries
    /\ delivered' = delivered + 1
    /\ IF should_process(m, processed_commands)
       THEN /\ processed_commands' = remember_command(processed_commands, m)
            /\ task' = [task EXCEPT ![delivered + 1] = NewTask(m)]
            /\ dispatched' = [dispatched EXCEPT ![m] = @ + 1]
       ELSE UNCHANGED << processed_commands, task, dispatched >>
    /\ UNCHANGED << now, active_commands, command_lock, factcheck_cache,
                    executor_queue, executor_running, text_vars, proc_vars, cleaned >>

(***************************************************************************)
(* src/bot.py: get_command_hash and the prevent_duplicate wrapper          *)
(***************************************************************************)

\* get_command_hash(ctx): the string that is hashed; md5 is taken to be
\* injective on these strings
get_command_hash(m) ==
    CommandNameOf(m) \o ":" \o ToString(m) \o ":" \o ToString(ChannelOf(m))
        \o ":" \o ToString(AuthorOf(m))

\* the duplicate test always answering no
is_active_never(command_hash, active) == FALSE

\* command_hash in active_commands
is_active(command_hash, active) == command_hash \in DOMAIN active

\* del d[key]
Without(d, key) == [k \in DOMAIN d \ {key} |-> d[k]]

\* d[key] = value
With(d, key, value) == [k \in DOMAIN d \cup {key} |-> IF k = key THEN value ELSE d[k]]

\* the registration left out
register_command_dropped(active, command_hash, entry) == active

\* active_commands[command_hash] = (time.time(), ctx.message.id, ctx.channel.id)
register_command(active, command_hash, entry) == With(active, command_hash, entry)

\* the first position of the command function the decorator wraps, by the
\* name the command is registered under
command_callback(m) ==
    IF CommandNameOf(m) = "status" THEN "s_start" ELSE "b_start"

\* wrapper: async with command_lock, the duplicate test and the registration
wrapper_enter(t) ==
    /\ task[t].pc = "w_lock"
    /\ command_lock = NoTask
    /\ LET h == get_command_hash(task[t].msg)
       IN  IF is_active(h, active_commands)
           THEN \* await ctx.send(...) with the lock held
                /\ command_lock' = t
                /\ task' = [task EXCEPT ![t].pc = "w_dup_send", ![t].rejected = TRUE]
                /\ UNCHANGED active_commands
           ELSE /\ active_commands' =
                       register_command(active_commands, h,
                           <<now, task[t].msg, ChannelOf(task[t].msg)>>)
                /\ task' = [task EXCEPT ![t].pc = command_callback(task[t].msg)]
                /\ UNCHANGED command_lock
    /\ UNCHANGED << now, delivered, processed_commands, factcheck_cache,
                    executor_queue, executor_running, dispatched, text_vars, proc_vars, cleaned >>

\* the task's record once the wrapper has returned or raised: its frame and
\* locals are gone
Finished(rec) == [IdleTask EXCEPT !.pc = "done", !.msg = rec.msg]

\* the warning's return placed inside the try block, so that the finally
\* block runs for the duplicate as well
after_warning_in_try(rec) == [rec EXCEPT !.pc = "f_lock"]

\* the return after the warning: it is before the try block, so the wrapper
\* is left without passing through the finally block
after_warning(rec) == Finished(rec)

\* wrapper: the warning to a duplicate is sent (or the send raises), the lock
\* is released and the wrapper returns without entering the try block
wrapper_duplicate(t) ==
    /\ task[t].pc = "w_dup_send"
    /\ command_lock' = NoTask
    /\ task' = [task EXCEPT ![t] = after_warning(@)]
    /\ UNCHANGED << now, delivered, processed_commands, active_commands,
                    factcheck_cache, executor_queue, executor_running,
                    dispatched, text_vars, proc_vars, cleaned >>

\* the removal left out
unregister_command_kept(active, command_hash) == active

\* if command_hash in active_commands: del active_commands[command_hash]
unregister_command(active, command_hash) ==
    IF is_active(command_hash, active) THEN Without(active, command_hash)
    ELSE active

\* wrapper: the finally block
wrapper_finally(t) ==
    /\ task[t].pc = "f_lock"
    /\ command_lock = NoTask
    /\ active_commands' =
           unregister_command(active_commands, get_command_hash(task[t].msg))
    /\ task' = [task EXCEPT ![t] = Finished(@)]
    /\ UNCHANGED << now, delivered, processed_commands, command_lock,
                    factcheck_cache, executor_queue, executor_running,
                    dispatched, text_vars, proc_vars, cleaned >>

(***************************************************************************)
(* src/bot.py: status_command                                              *)
(***************************************************************************)

\* status_command up to its await: the emptiness test of active_commands
\* and, when it is not empty, one line of status_text per entry
status_command(t) ==
    /\ task[t].pc = "s_start"
    /\ task' = [task EXCEPT
                   ![t].pc = IF DOMAIN active_commands = {} THEN "s_none_send"
                             ELSE "s_list_send",
                   ![t].listed = DOMAIN active_commands]
    /\ UNCHANGED << now, delivered, processed_commands, active_commands,
                    command_lock, factcheck_cache, executor_queue,
                    executor_running, dispatched, text_vars, proc_vars, cleaned >>

\* await ctx.send("No commands are currently being processed.") ; return
\* or await ctx.send("**Active Commands:**\n" + ...)
status_reply(t) ==
    /\ task[t].pc \in {"s_none_send", "s_list_send"}
    /\ \E ok \in BOOLEAN :
          task' = [task EXCEPT
                     ![t].pc = "f_lock",
                     ![t].sent = IF ~ok THEN @
                                 ELSE IF task[t].pc = "s_none_send"
                                      THEN Append(@, "status_none")
                                      ELSE Append(@, "status_list"),
                     ![t].propagated = IF ok THEN @ ELSE "reply"]
    /\ UNCHANGED << now, delivered, processed_commands, active_commands,
                    command_lock, factcheck_cache, executor_queue,
                    executor_running, dispatched, text_vars, proc_vars, cleaned >>

(***************************************************************************)
(* src/bot.py: factcheck_command                                           *)
(***************************************************************************)

\* request_id = f"{ctx.message.id}-{ref_msg_id}"
request_id(m) == ToString(m) \o "-" \o ToString(ReferenceOf(m))

\* the expiry test with <= for <
is_recent_inclusive(current_time, timestamp) == current_time - timestamp <= CACHE_EXPIRY

\* current_time - timestamp < CACHE_EXPIRY
is_recent(current_time, timestamp) == current_time - timestamp < CACHE_EXPIRY

\* an empty embed in place of the stored one
cached_embed_blank(cache, ref) == NoEmbed

\* timestamp, embed = factcheck_cache[ref_msg_id]
cached_embed(cache, ref) == cache[ref][2]

\* factcheck_command, from its first line to its first await: the reply
\* test, the cache lookup and the removal of an expired entry
factcheck_start(t) ==
    /\ task[t].pc = "b_start"
    /\ LET m == task[t].msg
           ref == ReferenceOf(m)
       IN  IF ref = NoReference
           THEN /\ task' = [task EXCEPT ![t].pc = "b_noreply_send"]
                /\ UNCHANGED factcheck_cache
           ELSE IF ref \in DOMAIN factcheck_cache
           THEN IF is_recent(now, factcheck_cache[ref][1])
                THEN /\ task' = [task EXCEPT ![t].pc = "b_cached_send",
                                             ![t].current_time = now,
                                             ![t].embed =
                                                 cached_embed(factcheck_cache, ref),
                                             ![t].served =
                                                 <<factcheck_cache[ref][1], now>>]
                     /\ UNCHANGED factcheck_cache
                ELSE /\ factcheck_cache' = Without(factcheck_cache, ref)
                     /\ task' = [task EXCEPT ![t].pc = "b_fetch",
                                             ![t].current_time = now,
                                             ![t].expired =
                                                 <<factcheck_cache[ref][1], now>>]
           ELSE /\ task' = [task EXCEPT ![t].pc = "b_fetch",
                                        ![t].current_time = now]
                /\ UNCHANGED factcheck_cache
    /\ UNCHANGED << now, delivered, processed_commands, active_commands,
                    command_lock, executor_queue, executor_running, dispatched,
                    text_vars, proc_vars, cleaned >>

\* await ctx.send("Please reply to a message ...") ; return
factcheck_noreply(t) ==
    /\ task[t].pc = "b_noreply_send"
    /\ \E ok \in BOOLEAN :
          task' = [task EXCEPT ![t].pc = "f_lock",
                               ![t].sent = IF ok THEN Append(@, "please_reply") ELSE @,
                               ![t].propagated = IF ok THEN @ ELSE "reply"]
    /\ UNCHANGED << now, delivered, processed_commands, active_commands,
                    command_lock, factcheck_cache, executor_queue,
                    executor_running, dispatched, text_vars, proc_vars, cleaned >>

\* await ctx.send("Using recent fact-check result:", embed=embed) ; return
factcheck_cached(t) ==
    /\ task[t].pc = "b_cached_send"
    /\ \E ok \in BOOLEAN :
          task' = [task EXCEPT ![t].pc = "f_lock",
                               ![t].sent = IF ok THEN Append(@, "cached") ELSE @,
                               ![t].propagated = IF ok THEN @ ELSE "reply"]
    /\ UNCHANGED << now, delivered, processed_commands, active_commands,
                    command_lock, factcheck_cache, executor_queue,
                    executor_running, dispatched, text_vars, proc_vars, cleaned >>

\* no except clause: the exception leaves the command
Except_uncaught(rec, origin) ==
    [rec EXCEPT !.pc = "f_lock", !.raised = origin, !.propagated = origin]

\* the except clause up to its await: the error goes to response_msg.edit
\* when response_msg is bound, to ctx.send otherwise
Except(rec, origin) == [rec EXCEPT !.pc = "b_report", !.raised = origin]

\* the command's own text taken for the claim
fetched_claim_own(m) == ContentOf(m)

\* (await ctx.channel.fetch_message(ref_msg_id)).content
fetched_claim(m) == ClaimText(ReferenceOf(m))

\* await ctx.channel.fetch_message(ref_msg_id), then the call of ctx.send
factcheck_fetch(t) ==
    /\ task[t].pc = "b_fetch"
    /\ \E ok \in BOOLEAN :
          task' = [task EXCEPT ![t] =
                     IF ok
                     THEN [@ EXCEPT !.pc = "b_progress_send",
                                    !.claim = fetched_claim(task[t].msg)]
                     ELSE Except(@, "fetch")]
    /\ UNCHANGED << now, delivered, processed_commands, active_commands,
                    command_lock, factcheck_cache, executor_queue,
                    executor_running, dispatched, text_vars, proc_vars, cleaned >>

\* response_msg = await ctx.send("Analyzing claim..."), then agent.fact_check
\* is entered and runs to the LLM call of summarize_claim
factcheck_progress(t) ==
    /\ task[t].pc = "b_progress_send"
    /\ \E ok \in BOOLEAN :
          task' = [task EXCEPT ![t] =
                     IF ok
                     THEN [@ EXCEPT !.pc = "a_summarize",
                                    !.response_msg = TRUE,
                                    !.sent = Append(@, "analyzing"),
                                    !.calls = Append(@, "summarize")]
                     ELSE Except(@, "send")]
    /\ UNCHANGED << now, delivered, processed_commands, active_commands,
                    command_lock, factcheck_cache, executor_queue,
                    executor_running, dispatched, text_vars, proc_vars, cleaned >>

(***************************************************************************)
(* src/agent.py: FactCheckAgent.fact_check, summarize_claim, the executor  *)
(* and search_relevant_info                                                *)
(***************************************************************************)

\* the fallback left out: a stock summary is searched for
summary_on_failure_stock(claim) == "Moon made of cheese"

\* clean_for_search over the texts fact_check can hand it, evaluated once
SearchQueries ==
    [text \in {Strip(answer) : answer \in Summaries} \cup Claims |->
        clean_for_search(text)]

\* summarize_claim: except Exception -> return claim
summary_on_failure(claim) == claim

\* summarize_claim returns: the LLM's summary, or the claim itself when the
\* call raised; fact_check cleans it and hands search_relevant_info to the
\* executor
agent_summarize(t) ==
    /\ task[t].pc = "a_summarize"
    /\ \E ok \in BOOLEAN, answer \in Summaries :
          LET summary == IF ok THEN Strip(answer)
                         ELSE summary_on_failure(task[t].claim)
          IN  task' = [task EXCEPT ![t].pc = "a_search_wait",
                                   ![t].query = SearchQueries[summary],
                                   ![t].future = "pending",
                                   ![t].calls = Append(@, "summarized"),
                                   ![t].failed = IF ok THEN @
                                                 ELSE @ \cup {"summarize"}]
    /\ executor_queue' = Append(executor_queue, t)
    /\ UNCHANGED << now, delivered, processed_commands, active_commands,
                    command_lock, factcheck_cache, executor_running, dispatched,
                    text_vars, proc_vars, cleaned >>

\* a pool with one worker more
worker_available_second(running) == Cardinality(running) < MAX_WORKERS + 1

\* a worker thread of the pool is free
worker_available(running) == Cardinality(running) < MAX_WORKERS

\* the executor's worker takes the oldest work item and enters
\* search_relevant_info (self.driver.get)
search_start(t) ==
    /\ executor_queue # << >>
    /\ Head(executor_queue) = t
    /\ worker_available(executor_running)
    /\ executor_queue' = Tail(executor_queue)
    /\ executor_running' = executor_running \cup {t}
    /\ task' = [task EXCEPT ![t].calls = Append(@, "search")]
    /\ UNCHANGED << now, delivered, processed_commands, active_commands,
                    command_lock, factcheck_cache, dispatched, text_vars, proc_vars, cleaned >>

\* what search_relevant_info may return: the scraped rating, or the
\* fallback text when anything in its try block raised or timed out
SearchResults ==
    {"Snopes fact check result: " \o txt : txt \in SnopesTexts} \cup {SEARCH_FALLBACK}

\* search_relevant_info returns on the worker thread; the future is resolved
search_return(t) ==
    /\ t \in executor_running
    /\ executor_running' = executor_running \ {t}
    /\ \E ok \in BOOLEAN, txt \in SnopesTexts :
          task' = [task EXCEPT
                     ![t].future = IF ok THEN "Snopes fact check result: " \o txt
                                   ELSE SEARCH_FALLBACK,
                     ![t].calls = Append(@, "searched"),
                     ![t].failed = IF ok THEN @ ELSE @ \cup {"search"}]
    /\ UNCHANGED << now, delivered, processed_commands, active_commands,
                    command_lock, factcheck_cache, executor_queue, dispatched,
                    text_vars, proc_vars, cleaned >>

\* the future not awaited
future_resolved_nowait(future) == TRUE

\* await loop.run_in_executor(...) returns once the future is resolved
future_resolved(future) == future \notin {"none", "pending"}

\* fact_check resumes from  await loop.run_in_executor  and issues the
\* assess call of the LLM
agent_search_done(t) ==
    /\ task[t].pc = "a_search_wait"
    /\ future_resolved(task[t].future)
    /\ task' = [task EXCEPT ![t].pc = "a_assess",
                            ![t].snopes_results = task[t].future,
                            ![t].future = "none",
                            ![t].query = "",
                            ![t].calls = Append(@, "assess")]
    /\ UNCHANGED << now, delivered, processed_commands, active_commands,
                    command_lock, factcheck_cache, executor_queue,
                    executor_running, dispatched, text_vars, proc_vars, cleaned >>

\* the Snopes Reference field added whatever the search returned
fact_check_embed_always(raw_result, claim, snopes_results) ==
    add_field(create_fact_check_embed(raw_result, claim), "Snopes Reference",
        "A related fact-check was found on Snopes and incorporated into this analysis.")

\* the embed fact_check returns for the LLM's answer
fact_check_embed(raw_result, claim, snopes_results) ==
    LET embed == create_fact_check_embed(raw_result, claim)
    IN  IF ~Contains(snopes_results, "No relevant Snopes fact-checks found")
        THEN add_field(embed, "Snopes Reference",
                 "A related fact-check was found on Snopes and incorporated into this analysis.")
        ELSE embed

\* fact_check_embed over the answers the modelled services can give,
\* evaluated once
FactCheckEmbeds ==
    [raw_result \in Responses, claim \in Claims, snopes_results \in SearchResults |->
        fact_check_embed(raw_result, claim, snopes_results)]

\* the assess call returns (or raises); fact_check builds the embed and
\* returns it, factcheck_command adds the request id and calls
\* response_msg.edit
agent_assess(t) ==
    /\ task[t].pc = "a_assess"
    /\ \/ \E raw_result \in Responses :
             task' = [task EXCEPT
                        ![t].pc = "b_edit",
                        ![t].embed =
                            add_field(FactCheckEmbeds[raw_result, task[t].claim,
                                                      task[t].snopes_results],
                                      "\\u200b",
                                      "Request ID: " \o request_id(task[t].msg)),
                        ![t].calls = @ \o <<"assessed", "embed">>,
                        ![t].failed = {}]
       \/ task' = [task EXCEPT ![t] = Except([@ EXCEPT !.failed = {}], "fact_check")]
    /\ UNCHANGED << now, delivered, processed_commands, active_commands,
                    command_lock, factcheck_cache, executor_queue,
                    executor_running, dispatched, text_vars, proc_vars, cleaned >>

\* the entry stamped with the time of the store
cache_entry_at_store(rec, store_time) == <<store_time, rec.embed>>

\* (current_time, embed): current_time is the local assigned before the cache
\* lookup, the clock is not read again at the store
cache_entry(rec, store_time) == <<rec.current_time, rec.embed>>

\* await response_msg.edit(content=None, embed=embed), then the cache entry
\* is written and the command body returns
factcheck_edit(t) ==
    /\ task[t].pc = "b_edit"
    /\ \/ /\ factcheck_cache' =
                 With(factcheck_cache, ReferenceOf(task[t].msg),
                      cache_entry(task[t], now))
          /\ task' = [task EXCEPT ![t].pc = "f_lock",
                                  ![t].sent = Append(@, "result"),
                                  ![t].stored = <<task[t].current_time, now>>]
       \/ /\ task' = [task EXCEPT ![t] = Except(@, "edit")]
          /\ UNCHANGED factcheck_cache
    /\ UNCHANGED << now, delivered, processed_commands, active_commands,
                    command_lock, executor_queue, executor_running, dispatched,
                    text_vars, proc_vars, cleaned >>

\* the await of the except clause: response_msg.edit when response_msg is
\* bound, ctx.send otherwise; when it raises the exception leaves the command
factcheck_report(t) ==
    /\ task[t].pc = "b_report"
    /\ \E ok \in BOOLEAN :
          task' = [task EXCEPT
                     ![t].pc = "f_lock",
                     ![t].sent = IF ~ok THEN @
                                 ELSE IF task[t].response_msg
                                      THEN Append(@, "error_edit")
                                      ELSE Append(@, "error_send"),
                     ![t].propagated = IF ok THEN @ ELSE "report"]
    /\ UNCHANGED << now, delivered, processed_commands, active_commands,
                    command_lock, factcheck_cache, executor_queue,
                    executor_running, dispatched, text_vars, proc_vars, cleaned >>

\* time passes
Tick ==
    /\ \E later \in {s \in TimeSamples : s > now} : now' = later
    /\ UNCHANGED << delivered, processed_commands, active_commands, command_lock,
                    factcheck_cache, executor_queue, executor_running, task,
                    dispatched, text_vars, proc_vars, cleaned >>

(***************************************************************************)
(* src/bot.py: the instance lock file, one step per file-system call       *)
(***************************************************************************)

\* how many processes are started from bot.py
MaxProcesses == 3

Procs == 1..MaxProcesses

\* str(os.getpid())
PidOf(p) == ToString(p)

\* the pid a crashed earlier instance left in the file
StalePid == "9"

NoFile == [exists |-> FALSE, content |-> ""]

FileWith(content) == [exists |-> TRUE, content |-> content]

\* a process not started yet
ProcOff == [pc |-> "off", pid |-> ""]

\* os.path.exists(f"/proc/{pid}"): a process with this pid is alive
ProcExists(pid) ==
    \E p \in Procs : PidOf(p) = pid /\ proc[p].pc \notin {"off", "exited"}

\* python bot.py is run
proc_start(p) ==
    /\ proc[p].pc = "off"
    /\ proc' = [proc EXCEPT ![p].pc = "l_exists"]
    /\ UNCHANGED << bot_vars, text_vars, lock_file, cleaned >>

\* if os.path.exists(_instance_lock_file)
lock_exists(p) ==
    /\ proc[p].pc = "l_exists"
    /\ proc' = [proc EXCEPT ![p].pc = IF lock_file.exists THEN "l_read"
                                      ELSE "l_open_w"]
    /\ UNCHANGED << bot_vars, text_vars, lock_file, cleaned >>

\* with open(_instance_lock_file, 'r') as f: pid = f.read().strip(); when
\* the file is gone by now open raises and the bare except passes
lock_read(p) ==
    /\ proc[p].pc = "l_read"
    /\ proc' = IF lock_file.exists
               THEN [proc EXCEPT ![p].pc = "l_check",
                                 ![p].pid = Strip(lock_file.content)]
               ELSE [proc EXCEPT ![p].pc = "run"]
    /\ UNCHANGED << bot_vars, text_vars, lock_file, cleaned >>

\* where the process is after  sys.exit(0)  inside the try block: SystemExit
\* is raised, the bare  except:  catches it and passes, and the module goes
\* on to create and run the bot
after_exit == "run"

\* if pid and os.path.exists(f"/proc/{pid}"): print(...); sys.exit(0)
lock_check(p) ==
    /\ proc[p].pc = "l_check"
    /\ proc' = [proc EXCEPT
                   ![p].pc = IF proc[p].pid # "" /\ ProcExists(proc[p].pid)
                             THEN after_exit ELSE "l_open_w",
                   ![p].pid = ""]
    /\ UNCHANGED << bot_vars, text_vars, lock_file, cleaned >>

\* open(_instance_lock_file, 'w'): the file is created or truncated
lock_open_w(p) ==
    /\ proc[p].pc = "l_open_w"
    /\ lock_file' = FileWith("")
    /\ proc' = [proc EXCEPT ![p].pc = "l_write"]
    /\ UNCHANGED << bot_vars, text_vars, cleaned >>

\* f.write(str(os.getpid())) and the close that flushes it; the module goes
\* on to create and run the bot
lock_write(p) ==
    /\ proc[p].pc = "l_write"
    /\ lock_file' = IF lock_file.exists THEN FileWith(PidOf(p)) ELSE lock_file
    /\ proc' = [proc EXCEPT ![p].pc = "run"]
    /\ UNCHANGED << bot_vars, text_vars, cleaned >>

\* the bot shuts down; cleanup(): if os.path.exists(...): os.remove(...)
proc_exit(p) ==
    /\ proc[p].pc = "run"
    /\ lock_file' = NoFile
    /\ proc' = [proc EXCEPT ![p].pc = "exited"]
    /\ UNCHANGED << bot_vars, text_vars, cleaned >>

\* one process has written the lock file and runs the bot
ProcRunning ==
    /\ lock_file = FileWith(PidOf(1))
    /\ proc = [p \in Procs |-> IF p = 1 THEN [ProcOff EXCEPT !.pc = "run"]
                                ELSE ProcOff]

(***************************************************************************)
(* src/bot.py: clean_expired_cache                                         *)
(***************************************************************************)

\* clean_expired_cache has not run
NotCleaned == [ran |-> FALSE]

\* current_time - timestamp > CACHE_EXPIRY
is_expired(current_time, timestamp) == current_time - timestamp > CACHE_EXPIRY

\* expired_keys
expired_keys(cache, current_time) ==
    {k \in DOMAIN cache : is_expired(current_time, cache[k][1])}

\* clean_expired_cache(): it has no await, so it runs in one step
clean_expired_cache ==
    /\ ~cleaned.ran
    /\ LET keys == expired_keys(factcheck_cache, now)
       IN  /\ factcheck_cache' = [k \in DOMAIN factcheck_cache \ keys |->
                                     factcheck_cache[k]]
           /\ cleaned' = [ran |-> TRUE, at |-> now, removed |-> keys,
                          before |-> factcheck_cache]
    /\ UNCHANGED << now, delivered, processed_commands, active_commands,
                    command_lock, executor_queue, executor_running, task,
                    dispatched, text_vars, proc_vars >>

(***************************************************************************)
(* The bot as a state machine                                              *)
(***************************************************************************)

EmptyDict == [k \in {} |-> 0]

BotInit ==
    /\ now = 0
    /\ delivered = 0
    /\ processed_commands \in {Backlog(n) : n \in InitialBacklogs}
    /\ active_commands = EmptyDict
    /\ command_lock = NoTask
    /\ factcheck_cache = EmptyDict
    /\ executor_queue = << >>
    /\ executor_running = {}
    /\ task = [t \in Tasks |-> IdleTask]
    /\ dispatched = [m \in MessageIds |-> 0]

Init ==
    /\ BotInit
    /\ text_in = NoText
    /\ text_out = NoText
    /\ ProcRunning
    /\ cleaned = NotCleaned

Next ==
    \/ \E m \in MessageIds : on_message(m)
    \/ \E t \in Tasks : wrapper_enter(t)
    \/ \E t \in Tasks : wrapper_duplicate(t)
    \/ \E t \in Tasks : wrapper_finally(t)
    \/ \E t \in Tasks : status_command(t)
    \/ \E t \in Tasks : status_reply(t)
    \/ \E t \in Tasks : factcheck_start(t)
    \/ \E t \in Tasks : factcheck_noreply(t)
    \/ \E t \in Tasks : factcheck_cached(t)
    \/ \E t \in Tasks : factcheck_fetch(t)
    \/ \E t \in Tasks : factcheck_progress(t)
    \/ \E t \in Tasks : agent_summarize(t)
    \/ \E t \in Tasks : search_start(t)
    \/ \E t \in Tasks : search_return(t)
    \/ \E t \in Tasks : agent_search_done(t)
    \/ \E t \in Tasks : agent_assess(t)
    \/ \E t \in Tasks : factcheck_edit(t)
    \/ \E t \in Tasks : factcheck_report(t)
    \/ Tick

Spec == Init /\ [][Next]_vars

\* the steps of one invocation: each is the return (or the raising) of the
\* await the invocation is suspended at, or the run of a queued work item
TaskStep(t) ==
    \/ wrapper_enter(t)
    \/ wrapper_duplicate(t)
    \/ wrapper_finally(t)
    \/ status_command(t)
    \/ status_reply(t)
    \/ factcheck_start(t)
    \/ factcheck_noreply(t)
    \/ factcheck_cached(t)
    \/ factcheck_fetch(t)
    \/ factcheck_progress(t)
    \/ agent_summarize(t)
    \/ search_start(t)
    \/ search_return(t)
    \/ agent_search_done(t)
    \/ agent_assess(t)
    \/ factcheck_edit(t)
    \/ factcheck_report(t)

\* the bot when every awaited call returns or raises in the end and the
\* event loop and the worker thread run what is ready
FairSpec == Spec /\ \A t \in Tasks : WF_vars(TaskStep(t))

\* the start-up of processes from bot.py, from no lock file or a stale one
LockInit ==
    /\ BotInit
    /\ processed_commands = {}
    /\ text_in = NoText
    /\ text_out = NoText
    /\ lock_file \in {NoFile, FileWith(StalePid)}
    /\ proc = [p \in Procs |-> ProcOff]
    /\ cleaned = NotCleaned

LockNext ==
    \/ \E p \in Procs : proc_start(p)
    \/ \E p \in Procs : lock_exists(p)
    \/ \E p \in Procs : lock_read(p)
    \/ \E p \in Procs : lock_check(p)
    \/ \E p \in Procs : lock_open_w(p)
    \/ \E p \in Procs : lock_write(p)
    \/ \E p \in Procs : proc_exit(p)

LockSpec == LockInit /\ [][LockNext]_vars

\* how many referenced messages have a cache entry
MaxCachedRefs == 3

\* ids of messages that were fact-checked
CachedRefs == {100 + i : i \in 1..MaxCachedRefs}

\* the times the entries were stored at
StoreTimes == {0, 1}

\* the times clean_expired_cache runs at, around the expiry boundary
CleanTimes == {1, 599, 600, 601}

\* the caches earlier fact-checks can have left
Caches ==
    UNION {[refs -> {<<ts, NoEmbed>> : ts \in StoreTimes}] : refs \in SUBSET CachedRefs}

\* clean_expired_cache run on a cache earlier fact-checks have filled
CacheInit ==
    /\ now \in CleanTimes
    /\ factcheck_cache \in Caches
    /\ delivered = 0
    /\ processed_commands = {}
    /\ active_commands = EmptyDict
    /\ command_lock = NoTask
    /\ executor_queue = << >>
    /\ executor_running = {}
    /\ task = [t \in Tasks |-> IdleTask]
    /\ dispatched = [m \in MessageIds |-> 0]
    /\ text_in = NoText
    /\ text_out = NoText
    /\ ProcRunning
    /\ cleaned = NotCleaned

CacheNext == clean_expired_cache

CacheSpec == CacheInit /\ [][CacheNext]_vars

(***************************************************************************)
(* The text functions of src/agent.py applied to bounded inputs            *)
(***************************************************************************)

\* the longest text of the exhaustive inputs of split_into_chunks
MaxTextLen == 5

\* the largest chunk size tried on them
MaxChunkSize == 3

\* the most pieces an exhaustive LLM answer is put together from
MaxPieces == 3

TextAlphabet == {"a", ".", " "}

RECURSIVE StringsOver(_, _)
StringsOver(alphabet, n) ==
    IF n = 0 THEN {""}
    ELSE LET shorter == StringsOver(alphabet, n - 1)
         IN  shorter \cup {s \o c : s \in shorter, c \in alphabet}

\* texts as long as the section text of a real answer, cut with the chunk
\* size create_fact_check_embed uses
LongTexts ==
    { "Intro. " \o Repeat("word ", 210) \o "end",
      Repeat("A full sentence here. ", 60) \o "end",
      Repeat("x", 1001),
      Repeat("x", 999) \o ". y. " \o Repeat("z ", 20) }

SplitInputs ==
    {[fn |-> "split", text |-> s, chunk_size |-> n] :
        s \in StringsOver(TextAlphabet, MaxTextLen), n \in 1..MaxChunkSize}
    \cup {[fn |-> "split", text |-> s, chunk_size |-> EMBED_CHUNK_SIZE] : s \in LongTexts}

ResponsePieces ==
    {"- Rating: ", "True ", "False ", "Partially True ", "Unverifiable ", "\n",
     "- Sources: ", "x "}

\* answers in the format the system prompt asks for, three of them with a
\* section longer than a field may be
FormattedResponses ==
    { "- Rating: Partially True \n- Core factual assertions: 1. a\n2. b\n"
          \o "- Evaluation of each assertion: fine\nmore\n- Research related information: r\n"
          \o "- Reasoning: because.\n- Sources: Official records\n* http://x",
      "- Rating: True\n- Sources:\nIntro. " \o Repeat("word ", 210) \o "end",
      "- Rating: Unverifiable\n- Evaluation of each assertion:\n"
          \o Repeat("A full sentence here. ", 60) \o "end",
      "- Rating: Partially True (one detail is False)\n- Sources:\nOfficial records",
      "- Rating: True\n- Sources:\n" \o Repeat("x", 1001),
      "The claim is False." }

EmbedInputs ==
    {[fn |-> "embed", raw_result |-> r, claim |-> "c"] :
        r \in StringsOver(ResponsePieces, MaxPieces) \cup FormattedResponses}

text_apply_split ==
    /\ text_in.fn = "split"
    /\ text_out = NoText
    /\ text_out' = [fn |-> "split",
                    chunks |-> split_into_chunks(text_in.text, text_in.chunk_size)]
    /\ UNCHANGED << bot_vars, text_in, proc_vars, cleaned >>

text_apply_embed ==
    /\ text_in.fn = "embed"
    /\ text_out = NoText
    /\ text_out' = [fn |-> "embed",
                    embed |-> create_fact_check_embed(text_in.raw_result, text_in.claim)]
    /\ UNCHANGED << bot_vars, text_in, proc_vars, cleaned >>

TextInit ==
    /\ BotInit
    /\ processed_commands = {}
    /\ text_in \in SplitInputs \cup EmbedInputs
    /\ text_out = NoText
    /\ ProcRunning
    /\ cleaned = NotCleaned

TextNext == text_apply_split \/ text_apply_embed

TextSpec == TextInit /\ [][TextNext]_vars

(***************************************************************************)
(* Properties                                                              *)
(***************************************************************************)

\* the invocation is inside agent.fact_check
InFactCheck(t) == task[t].pc \in {"a_summarize", "a_search_wait", "a_assess"}

\* the invocation is inside the wrapped command body
InBody(t) ==
    task[t].pc \in {"b_start", "b_noreply_send", "b_cached_send", "b_fetch",
                    "b_progress_send", "a_summarize", "a_search_wait", "a_assess",
                    "b_edit", "b_report", "s_start", "s_none_send", "s_list_send"}

HashOf(t) == get_command_hash(task[t].msg)

Last(q) == q[Len(q)]

IsPrefix(a, b) == Len(a) <= Len(b) /\ a = SubSeq(b, 1, Len(a))

InSeq(e, q) == \E i \in 1..Len(q) : q[i] = e

\* C1 as stated: at most one execution is inside agent.fact_check at any
\* time, whatever command messages the executions belong to.
C1_SingleOutstanding == Cardinality({t \in Tasks : InFactCheck(t)}) <= 1

\* C1, amended: at most one execution per command hash is inside
\* agent.fact_check at any time (executions of different command messages
\* can be inside it together).
C1_OnePerCommand ==
    \A t1, t2 \in Tasks :
        t1 # t2 /\ InFactCheck(t1) /\ InFactCheck(t2) => HashOf(t1) # HashOf(t2)

\* an execution is inside agent.fact_check while a second invocation of the
\* same command message is being turned away
C1_DuplicateDuringFactCheck ==
    \E t1, t2 \in Tasks :
        /\ InFactCheck(t1)
        /\ task[t2].pc = "w_dup_send"
        /\ HashOf(t1) = HashOf(t2)

C2_Inv ==
    /\ \A t1, t2 \in Tasks :
          t1 # t2 /\ InBody(t1) /\ InBody(t2) => HashOf(t1) # HashOf(t2)
    /\ \A t \in Tasks :
          task[t].rejected =>
              task[t].pc = "w_dup_send" /\ HashOf(t) \in DOMAIN active_commands

C2_Step ==
    \A t \in Tasks :
        task[t].pc = "w_lock" /\ task'[t].pc # "w_lock"
            /\ HashOf(t) \in DOMAIN active_commands
        => task'[t].pc = "w_dup_send" /\ active_commands' = active_commands

\* C2: for every command hash at most one execution of the wrapped body is
\* in progress; an invocation that enters the wrapper while its hash is in
\* active_commands goes to the 'already being processed' warning, leaves
\* active_commands alone and never runs the body.
C2_OneBodyPerHash == [](C2_Inv) /\ [][C2_Step]_vars

\* a duplicate is being warned while the first invocation runs its body
C2_DuplicateWarned ==
    \E t1, t2 \in Tasks :
        /\ InBody(t1)
        /\ task[t2].rejected
        /\ HashOf(t1) = HashOf(t2)

\* search_relevant_info is executing on the driver for this invocation
Searching(t) == task[t].calls # << >> /\ Last(task[t].calls) = "search"

\* C3: at most one search_relevant_info is executing on the driver at any
\* time, so a request's search starts only after the search of the request
\* before it has returned.
C3_OneSearch == Cardinality({t \in Tasks : Searching(t)}) <= 1

\* one request's search is executing while another request's search waits
\* in the executor's queue
C3_SecondSearchWaits ==
    \E t1, t2 \in Tasks :
        t1 # t2 /\ Searching(t1) /\ executor_queue = <<t2>>

\* C4 as stated: process_commands is invoked at most once for each message
\* id, however often the message is delivered.
C4_ProcessedOnce == \A m \in MessageIds : dispatched[m] <= 1

\* C5: processed_commands never holds more than MAX_PROCESSED_COMMANDS ids.
C5_SeenBounded == Cardinality(processed_commands) <= MAX_PROCESSED_COMMANDS

\* the set was full, a further command message arrived and was processed
C5_ClearedWhenFull ==
    /\ processed_commands = {}
    /\ \E m \in MessageIds : dispatched[m] > 0

C6_Inv ==
    \A t \in Tasks :
        /\ task[t].pc = "b_cached_send" \/ InSeq("cached", task[t].sent)
               => task[t].served # << >>
        /\ task[t].served # << >>
               => task[t].served[2] - task[t].served[1] < CACHE_EXPIRY

C6_Step ==
    \A t \in Tasks :
        LET ref == ReferenceOf(task[t].msg)
        IN  /\ task[t].pc = "b_start" /\ task'[t].pc # "b_start"
            /\ ref \in DOMAIN factcheck_cache
            /\ now - factcheck_cache[ref][1] >= CACHE_EXPIRY
            => /\ ref \notin DOMAIN factcheck_cache'
               /\ task'[t].pc = "b_fetch"

\* C6: a cached embed is sent only when its timestamp is less than
\* CACHE_EXPIRY before the time of the request; an entry that old or older is
\* deleted and the request goes on to a fresh analysis.
C6_CacheExpires == [](C6_Inv) /\ [][C6_Step]_vars

\* a request found an entry exactly CACHE_EXPIRY old, removed it and has a
\* fresh embed
C6_ExpiredThenFresh ==
    \E t \in Tasks :
        /\ task[t].expired # << >>
        /\ task[t].expired[2] - task[t].expired[1] = CACHE_EXPIRY
        /\ task[t].pc = "b_edit"

\* the calls of one complete fact_check, in order
AgentOrder ==
    << "summarize", "summarized", "search", "searched", "assess", "assessed",
       "embed" >>

\* C7: an execution of agent.fact_check issues the summarise call, lets it
\* complete, then runs the browser search once, then issues the assess call,
\* and builds the embed only after that call returned: two LLM calls and one
\* search, in this order; a request answered from the cache makes none.
C7_CallOrder ==
    \A t \in Tasks :
        /\ IsPrefix(task[t].calls, AgentOrder)
        /\ task[t].pc = "b_edit" => task[t].calls = AgentOrder
        /\ task[t].raised = "fact_check" => task[t].calls = SubSeq(AgentOrder, 1, 5)
        /\ task[t].served # << >> => task[t].calls = << >>

\* a fact-check has returned its embed
C7_FactCheckReturned ==
    \E t \in Tasks : task[t].pc = "b_edit" /\ task[t].calls = AgentOrder

\* the values of the section fields of an embed (every field after Rating)
SectionValues(embed) ==
    {embed.fields[i].value : i \in 2..Len(embed.fields)}

\* C8 as stated: every section field value of the embed is at most 1024
\* characters long, and every chunk split_into_chunks(text, n) returns is no
\* longer than n allows (n plus the margin the embed leaves itself, 24).
C8_FieldsBounded ==
    /\ text_out.fn = "embed" =>
           \A v \in SectionValues(text_out.embed) : Len(v) <= FIELD_VALUE_LIMIT
    /\ text_out.fn = "split" =>
           \A i \in 1..Len(text_out.chunks) :
               Len(text_out.chunks[i])
                   <= text_in.chunk_size + (FIELD_VALUE_LIMIT - EMBED_CHUNK_SIZE)

\* the first line of the answer after "Rating:"
RatingLineOf(raw_result) ==
    LET at == Min(Occurrences(raw_result, "Rating:")) + Len("Rating:")
        rest == SubSeq(raw_result, at, Len(raw_result))
        ends == Occurrences(rest, "\n")
    IN  IF ends = {} THEN rest ELSE SubSeq(rest, 1, Min(ends) - 1)

\* the label the line gives as the rating: the one its text begins with
LabelsNamed(line) ==
    {l \in RatingLabels : StartsWith(Strip(line), l)}

\* the label the Rating field shows
ShownRatings(embed) ==
    {l \in RatingLabels :
        embed.fields[1] = [name |-> "Rating", value |-> emoji_of(l) \o " " \o l]}

\* C9 as stated: the Rating field shows exactly one of the four labels, and
\* when the answer's 'Rating:' line names one of them it shows that one.
C9_RatingLabel ==
    text_out.fn = "embed" =>
        /\ Cardinality(ShownRatings(text_out.embed)) = 1
        /\ Contains(text_in.raw_result, "Rating:") =>
               \A l \in LabelsNamed(RatingLineOf(text_in.raw_result)) :
                   ShownRatings(text_out.embed) = {l}

NotAReply(t) ==
    /\ task[t].pc # "none"
    /\ CommandNameOf(task[t].msg) = "factcheck"
    /\ ReferenceOf(task[t].msg) = NoReference

C12_Inv ==
    \A t \in Tasks :
        /\ NotAReply(t) =>
               /\ task[t].calls = << >>
               /\ task[t].claim = ""
               /\ IsPrefix(task[t].sent, <<"please_reply">>)
               /\ task[t].pc = "f_lock" /\ task[t].propagated = "none"
                      => task[t].sent = <<"please_reply">>
        /\ task[t].claim # "" =>
               /\ ReferenceOf(task[t].msg) # NoReference
               /\ task[t].claim = ClaimText(ReferenceOf(task[t].msg))

C12_Step ==
    \A t \in Tasks :
        NotAReply(t) /\ task'[t] # task[t] =>
            /\ factcheck_cache' = factcheck_cache
            /\ executor_queue' = executor_queue
            /\ executor_running' = executor_running

\* C12: a factcheck command that is not a reply sends the 'Please reply to
\* a message' text, makes no LLM call and no search and leaves
\* factcheck_cache alone; for a reply, the claim handed to agent.fact_check
\* is the content of the message whose id is the reference's message_id.
C12_ClaimIsRepliedTo == [](C12_Inv) /\ [][C12_Step]_vars

\* a command that is not a reply has been answered while the fact-check of a
\* reply is under way
C12_NoReplyAnswered ==
    \E t1, t2 \in Tasks :
        /\ NotAReply(t1) /\ task[t1].pc = "f_lock"
        /\ task[t1].sent = <<"please_reply">>
        /\ InFactCheck(t2) /\ task[t2].claim = ClaimText(101)

\* the hashes of the commands whose body is in progress, status included
HashesInBody == {HashOf(u) : u \in {v \in Tasks : InBody(v)}}

C13_Step ==
    \A t \in Tasks :
        task[t].pc = "s_start" /\ task'[t].pc # "s_start" =>
            IF \A u \in Tasks \ {t} : ~InBody(u)
            THEN task'[t].pc = "s_none_send"
            ELSE /\ task'[t].pc = "s_list_send"
                 /\ HashesInBody \subseteq task'[t].listed

\* C13 as stated: when no other command is being processed at the time
\* status runs it replies 'No commands are currently being processed.',
\* otherwise it replies with the list, one line per command in progress.
C13_StatusReport == [][C13_Step]_vars

\* the invocation has put its hash into active_commands and not removed it
Registered(t) == InBody(t) \/ task[t].pc = "f_lock"

C14_Inv ==
    /\ DOMAIN active_commands = {HashOf(t) : t \in {u \in Tasks : Registered(u)}}
    /\ \A t1, t2 \in Tasks :
          t1 # t2 /\ Registered(t1) /\ Registered(t2) => HashOf(t1) # HashOf(t2)
    /\ command_lock # NoTask => task[command_lock].pc = "w_dup_send"

\* C14: active_commands holds exactly the hashes of the command executions
\* that registered and have not finished (so it is empty when there is
\* none); every execution that registered its hash removes it in the end,
\* whether its body returned, returned early or raised; and command_lock,
\* when held, is released again.
C14_CleanedUp ==
    /\ [](C14_Inv)
    /\ \A t \in Tasks : Registered(t) ~> (task[t].pc = "done")
    /\ (command_lock # NoTask) ~> (command_lock = NoTask)

\* a command whose body raised and whose error report raised as well is
\* waiting for the lock in the finally block while a duplicate holds it
C14_RaisedAndWaiting ==
    \E t1, t2 \in Tasks :
        /\ task[t1].pc = "f_lock" /\ task[t1].propagated = "report"
        /\ command_lock = t2
        /\ HashOf(t1) \in DOMAIN active_commands

C15_Inv ==
    \A t \in Tasks :
        task[t].served # << >> =>
            /\ task[t].pc \in {"b_cached_send", "f_lock"}
            /\ task[t].calls = << >>
            /\ task[t].claim = ""
            /\ task[t].raised = "none"
            /\ IsPrefix(task[t].sent, <<"cached">>)
            /\ task[t].pc = "f_lock" /\ task[t].propagated = "none"
                   => task[t].sent = <<"cached">>

C15_Step ==
    \A t \in Tasks :
        LET ref == ReferenceOf(task[t].msg)
        IN  /\ /\ task[t].pc = "b_start" /\ task'[t].pc # "b_start"
               /\ ref \in DOMAIN factcheck_cache
               /\ now - factcheck_cache[ref][1] < CACHE_EXPIRY
               => /\ task'[t].pc = "b_cached_send"
                  /\ task'[t].embed = factcheck_cache[ref][2]
                  /\ factcheck_cache' = factcheck_cache
            /\ task[t].pc = "b_cached_send" /\ task'[t].pc # "b_cached_send"
               => /\ task'[t].pc = "f_lock"
                  /\ factcheck_cache' = factcheck_cache
                  /\ executor_queue' = executor_queue
                  /\ executor_running' = executor_running

\* C15: a request that finds an entry for the referenced message younger
\* than CACHE_EXPIRY sends the stored embed and returns: it does not fetch
\* the message, makes no LLM call and no search, and leaves factcheck_cache
\* unchanged.
C15_CacheHitNoWork == [](C15_Inv) /\ [][C15_Step]_vars

\* a request has been answered with an entry 599 seconds old
C15_ServedFromCache ==
    \E t \in Tasks :
        /\ task[t].pc = "f_lock"
        /\ task[t].sent = <<"cached">>
        /\ task[t].served = <<0, 599>>
        /\ ReferenceOf(task[t].msg) \in DOMAIN factcheck_cache

C16_Step ==
    \A p \in Procs :
        proc[p].pc = "l_check" /\ ProcExists(proc[p].pid) =>
            proc'[p].pc \in {"l_check", "exited"} /\ lock_file' = lock_file

\* C16 as stated: at most one process runs the bot at any time, and a
\* process that reads from the lock file the PID of a live process exits
\* without starting the bot and without overwriting the file.
C16_SingleInstance ==
    /\ [](Cardinality({p \in Procs : proc[p].pc = "run"}) <= 1)
    /\ [][C16_Step]_vars

\* the headers of the response format FACT_CHECK_SYSTEM_PROMPT asks for
PromptHeaders ==
    {"Rating", "Core factual assertions", "Evaluation of each assertion",
     "Research related information", "Reasoning", "Sources"}

\* the sections among them
PromptSections == PromptHeaders \ {"Rating"}

\* the header a line of the response starts with ("- Name:"), "" when none
HeaderName(line) ==
    LET named == {h \in PromptHeaders : StartsWith(Strip(line), "- " \o h \o ":")}
    IN  IF named = {} THEN "" ELSE CHOOSE h \in named : TRUE

\* the header that most recently precedes line i (or is on it)
OwnerOf(lines, i) ==
    LET headers == {j \in 1..i : HeaderName(lines[j]) # ""}
    IN  IF headers = {} THEN "" ELSE HeaderName(lines[Max(headers)])

\* the content line i carries: the text after the header on a header line,
\* the whole line otherwise
ContentOfLine(lines, i) ==
    LET line == Strip(lines[i])
        h == HeaderName(line)
    IN  IF h = "" THEN line
        ELSE Strip(SubSeq(line, Len("- " \o h \o ":") + 1, Len(line)))

\* the lines shown in the fields the embed has under a name
LinesUnder(embed, name) ==
    UNION {{Strip(l) : l \in {SplitOn(embed.fields[k].value, "\n")[n] :
                                 n \in 1..Len(SplitOn(embed.fields[k].value, "\n"))}} :
           k \in {j \in 1..Len(embed.fields) :
                     embed.fields[j].name \in {name, name \o " (continued)"}}}

\* the names of the section fields of the embed
SectionFieldNames(embed) ==
    {embed.fields[k].name : k \in 2..Len(embed.fields)}

\* C17 as stated: for a response short enough to need no chunking, every
\* content line that follows the header of a section the prompt asks for is
\* shown in a field of that section's name and in no field of another name.
C17_SectionsRendered ==
    text_out.fn = "embed" /\ Len(text_in.raw_result) <= EMBED_CHUNK_SIZE =>
        LET lines == SplitOn(text_in.raw_result, "\n")
        IN  \A i \in 1..Len(lines) :
                LET owner == OwnerOf(lines, i)
                    content == ContentOfLine(lines, i)
                IN  owner \in PromptSections /\ content # "" =>
                        /\ content \in LinesUnder(text_out.embed, owner)
                        /\ \A other \in SectionFieldNames(text_out.embed) :
                               other \notin {owner, owner \o " (continued)"}
                                   => content \notin LinesUnder(text_out.embed, other)

\* C18 as stated: for a non-empty text split_into_chunks returns a
\* non-empty list without an empty chunk, and no field of the embed has an
\* empty value.
C18_NoEmptyChunk ==
    /\ text_out.fn = "split" /\ text_in.text # "" =>
           /\ text_out.chunks # << >>
           /\ \A i \in 1..Len(text_out.chunks) : text_out.chunks[i] # ""
    /\ text_out.fn = "embed" =>
           \A i \in 1..Len(text_out.embed.fields) :
               text_out.embed.fields[i].value # ""

\* C19 as stated: after clean_expired_cache has run at time t every entry
\* left in the cache is one factcheck_command treats as fresh at t, and
\* every entry removed is one factcheck_command treats as expired at t.
C19_CleanMatchesLookup ==
    cleaned.ran =>
        /\ \A k \in DOMAIN factcheck_cache :
               is_recent(cleaned.at, factcheck_cache[k][1])
        /\ \A k \in cleaned.removed :
               ~is_recent(cleaned.at, cleaned.before[k][1])

\* the embed has a field of this name
HasField(embed, name) == \E i \in 1..Len(embed.fields) : embed.fields[i].name = name

C20_Step ==
    \A t \in Tasks :
        task[t].pc = "a_assess" /\ task'[t].pc = "b_edit" =>
            (HasField(task'[t].embed, "Snopes Reference")
                <=> "search" \notin task[t].failed)

\* C20: the embed fact_check returns has the 'Snopes Reference' field
\* exactly when the search returned a scrape result; after a search that
\* failed or timed out (and returned the fallback text) it has none.
C20_SnopesReference == [][C20_Step]_vars

\* one fact-check whose search scraped a result and one whose search failed
\* have both returned their embeds
C20_WithAndWithout ==
    \E t1, t2 \in Tasks :
        /\ task[t1].pc = "b_edit" /\ task[t2].pc = "b_edit"
        /\ HasField(task[t1].embed, "Snopes Reference")
        /\ task[t1].snopes_results # SEARCH_FALLBACK
        /\ ~HasField(task[t2].embed, "Snopes Reference")
        /\ task[t2].snopes_results = SEARCH_FALLBACK

\* the request id field of a cached embed
RequestIdField(m) == [name |-> "\\u200b", value |-> "Request ID: " \o request_id(m)]

\* the cache holds an entry this invocation wrote
WroteCache(t) ==
    LET ref == ReferenceOf(task[t].msg)
    IN  /\ ref \in DOMAIN factcheck_cache
        /\ Last(factcheck_cache[ref][2].fields) = RequestIdField(task[t].msg)
        /\ factcheck_cache[ref][1] = task[t].current_time

\* C10 as stated: whenever fetching the referenced message, agent.fact_check
\* or editing the response raised, the command ends with the 'Error during
\* fact check:' text sent, no cache entry written and nothing propagated.
C10_AlwaysReported ==
    \A t \in Tasks :
        task[t].raised # "none" /\ task[t].pc = "f_lock" =>
            /\ task[t].propagated = "none"
            /\ task[t].sent # << >>
            /\ Last(task[t].sent) \in {"error_edit", "error_send"}
            /\ ~WroteCache(t)

\* C10, amended: when fetching the referenced message, agent.fact_check or
\* editing the response raises (or the progress message cannot be sent), the
\* except clause takes over: the invocation writes no cache entry, the
\* exception raised is not propagated, and the 'Error during fact check:'
\* text is sent (by editing the response when there is one, by a new message
\* otherwise) unless that report call raises itself, in which case its
\* exception leaves the command.
C10_CaughtAndReported ==
    \A t \in Tasks :
        task[t].raised # "none" =>
            /\ task[t].pc \in {"b_report", "f_lock"}
            /\ task[t].propagated \in {"none", "report"}
            /\ ~InSeq("result", task[t].sent)
            /\ ~WroteCache(t)
            /\ task[t].pc = "f_lock" /\ task[t].propagated = "none" =>
                   /\ task[t].sent # << >>
                   /\ Last(task[t].sent) =
                          IF task[t].response_msg THEN "error_edit" ELSE "error_send"

\* editing the response raised and the error text was put in its place
C10_EditFailureReported ==
    \E t \in Tasks :
        /\ task[t].pc = "f_lock"
        /\ task[t].raised = "edit"
        /\ task[t].propagated = "none"
        /\ Last(task[t].sent) = "error_edit"

\* an invocation that was turned away takes no step that changes
\* active_commands, and an entry is only ever removed, by the finally block
\* of an invocation that was not turned away and carries the entry's hash;
\* an entry that stays keeps its start time, message and channel
C21_Step ==
    /\ \A t \in Tasks :
          (task[t].rejected \/ task'[t].rejected) /\ task'[t] # task[t]
              => active_commands' = active_commands
    /\ \A h \in DOMAIN active_commands :
          IF h \in DOMAIN active_commands'
          THEN active_commands'[h] = active_commands[h]
          ELSE \E t \in Tasks :
                  /\ ~task[t].rejected
                  /\ HashOf(t) = h
                  /\ task[t].pc = "f_lock"
                  /\ task'[t].pc = "done"

\* while a duplicate is being turned away, the execution in progress is
\* another invocation and its entry, registered no later than now, is there
C21_Inv ==
    \A t \in Tasks :
        task[t].rejected =>
            /\ HashOf(t) \in DOMAIN active_commands
            /\ active_commands[HashOf(t)][1] <= now
            /\ \E u \in Tasks \ {t} : Registered(u) /\ HashOf(u) = HashOf(t)

\* C21: a rejected duplicate invocation leaves active_commands unchanged; it
\* neither replaces nor removes the entry of the execution in progress, and
\* that entry stays, with its original start time, until the finally block
\* of the original execution removes it.
C21_DuplicateLeavesEntry == [](C21_Inv) /\ [][C21_Step]_vars

\* a duplicate is being turned away after time has passed since the original
\* execution registered, and the entry still carries the original start time
C21_OldEntryKept ==
    \E t1, t2 \in Tasks :
        /\ task[t2].pc = "w_dup_send"
        /\ task[t1].pc = "f_lock"
        /\ HashOf(t1) = HashOf(t2)
        /\ active_commands[HashOf(t2)][1] < now

\* the invocation is past the cache lookup of factcheck_command and has not
\* left the command body
PastLookup(t) ==
    task[t].pc \in {"b_cached_send", "b_fetch", "b_progress_send", "a_summarize",
                    "a_search_wait", "a_assess", "b_edit", "b_report"}

\* current_time is the clock at the cache lookup and is kept to the end of
\* the body; an entry appears or changes only in the step in which the edit
\* of the response to the result embed returns, after a complete
\* fact_check, and it carries that invocation's current_time and embed; a
\* lookup serves an entry only when its timestamp is less than CACHE_EXPIRY
\* before the lookup's own clock
C22_Step ==
    /\ \A t \in Tasks :
          /\ task[t].pc = "b_start" /\ PastLookup(t)'
                 => task'[t].current_time = now
          /\ PastLookup(t) /\ task'[t].pc # "done"
                 => task'[t].current_time = task[t].current_time
          /\ task[t].pc = "b_start" /\ task'[t].pc = "b_cached_send"
                 => LET ref == ReferenceOf(task[t].msg)
                    IN  /\ ref \in DOMAIN factcheck_cache
                        /\ now - factcheck_cache[ref][1] < CACHE_EXPIRY
                        /\ task'[t].embed = factcheck_cache[ref][2]
    /\ \A ref \in DOMAIN factcheck_cache' :
          ref \notin DOMAIN factcheck_cache
              \/ factcheck_cache'[ref] # factcheck_cache[ref]
          => \E t \in Tasks :
                /\ ReferenceOf(task[t].msg) = ref
                /\ task[t].pc = "b_edit" /\ task'[t].pc = "f_lock"
                /\ task[t].raised = "none" /\ task'[t].raised = "none"
                /\ task[t].calls = AgentOrder
                /\ task'[t].sent = Append(task[t].sent, "result")
                /\ factcheck_cache'[ref] = <<task[t].current_time, task[t].embed>>
                /\ task[t].current_time <= now

\* an invocation that stored an entry stored its own current_time, which is
\* not after the time of the store, and showed the result first
C22_Inv ==
    \A t \in Tasks :
        task[t].stored # << >> =>
            /\ task[t].pc = "f_lock"
            /\ task[t].stored[1] = task[t].current_time
            /\ task[t].stored[1] <= task[t].stored[2]
            /\ Last(task[t].sent) = "result"
            /\ task[t].raised = "none"

\* C22: a cache entry is written only after fact_check returned and the
\* response was edited to the result embed; its timestamp is the time taken
\* at the cache lookup of the request that produced it, not the time of the
\* store; and a lookup serves an entry only while fewer than CACHE_EXPIRY
\* seconds lie between that timestamp and the lookup.
C22_StampedAtStart == [](C22_Inv) /\ [][C22_Step]_vars

\* a result stored 599 seconds after its request began is found expired one
\* second later by a request for the same message
C22_ExpiredSoonAfterStore ==
    \E t1, t2 \in Tasks :
        /\ task[t1].stored = <<0, 599>>
        /\ task[t2].expired = <<0, 600>>
        /\ ReferenceOf(task[t1].msg) = ReferenceOf(task[t2].msg)

====
